---------------------------- MODULE Spec2Model ----------------------------
(***************************************************************************)
(* A model of ibpm's BoundaryVector (src/src/BoundaryVector.h): a vector   *)
(* of 2*n doubles, one X and one Y component per boundary point, held in   *)
(* a Blitz++ Array<double,1>.                                              *)
(*                                                                         *)
(* The first part models the element type: IEEE-754 binary64 arithmetic    *)
(* with round-to-nearest-even, computed exactly.  TLC's integers are 32    *)
(* bits wide, so significands are kept as little-endian sequences of       *)
(* limbs.  The second part models the class: its buffers live in a heap    *)
(* (a Blitz Array refers to a memory block), and every member function is  *)
(* an operator on the object state plus an action that calls it.           *)
(***************************************************************************)
EXTENDS Integers, Sequences, FiniteSets, TLC

(***************************************************************************)
(* Natural numbers of arbitrary size: little-endian limbs, no high zero    *)
(* limb, <<>> for 0.                                                       *)
(***************************************************************************)
Radix == 2^15
LimbBits == CHOOSE b \in 1..30 : 2^b = Radix

Max(a, b) == IF a >= b THEN a ELSE b
Min(a, b) == IF a <= b THEN a ELSE b

RECURSIVE BNorm(_)
BNorm(a) ==
    IF Len(a) = 0 THEN <<>>
    ELSE IF a[Len(a)] = 0 THEN BNorm(SubSeq(a, 1, Len(a) - 1))
    ELSE a

RECURSIVE BFromNat(_)
BFromNat(n) == IF n = 0 THEN <<>> ELSE <<n % Radix>> \o BFromNat(n \div Radix)

Limb(a, i) == IF i <= Len(a) THEN a[i] ELSE 0

RECURSIVE BAddFrom(_, _, _, _)
BAddFrom(a, b, i, c) ==
    IF i > Max(Len(a), Len(b))
    THEN (IF c = 0 THEN <<>> ELSE <<c>>)
    ELSE LET t == Limb(a, i) + Limb(b, i) + c
         IN  <<t % Radix>> \o BAddFrom(a, b, i + 1, t \div Radix)

BAdd(a, b) == BAddFrom(a, b, 1, 0)

\* a - b for a >= b
RECURSIVE BSubFrom(_, _, _, _)
BSubFrom(a, b, i, br) ==
    IF i > Len(a) THEN <<>>
    ELSE LET t == a[i] - Limb(b, i) - br
         IN  <<IF t < 0 THEN t + Radix ELSE t>>
                 \o BSubFrom(a, b, i + 1, IF t < 0 THEN 1 ELSE 0)

BSub(a, b) == BNorm(BSubFrom(a, b, 1, 0))

RECURSIVE BCmpAt(_, _, _)
BCmpAt(a, b, i) ==
    IF i = 0 THEN 0
    ELSE IF a[i] # b[i] THEN (IF a[i] < b[i] THEN -1 ELSE 1)
    ELSE BCmpAt(a, b, i - 1)

\* -1, 0, 1 as a < b, a = b, a > b
BCmp(a, b) ==
    IF Len(a) # Len(b) THEN (IF Len(a) < Len(b) THEN -1 ELSE 1)
    ELSE BCmpAt(a, b, Len(a))

RECURSIVE BMulSmallFrom(_, _, _, _)
BMulSmallFrom(a, c, i, carry) ==
    IF i > Len(a) THEN (IF carry = 0 THEN <<>> ELSE <<carry>>)
    ELSE LET t == a[i] * c + carry
         IN  <<t % Radix>> \o BMulSmallFrom(a, c, i + 1, t \div Radix)

\* a * c for a limb c
BMulSmall(a, c) == IF c = 0 THEN <<>> ELSE BMulSmallFrom(a, c, 1, 0)

RECURSIVE Zeros(_)
Zeros(q) == IF q = 0 THEN <<>> ELSE <<0>> \o Zeros(q - 1)

BShiftLimbs(a, q) == IF Len(a) = 0 THEN <<>> ELSE Zeros(q) \o a

RECURSIVE BMulFrom(_, _, _)
BMulFrom(a, b, j) ==
    IF j > Len(b) THEN <<>>
    ELSE BAdd(BShiftLimbs(BMulSmall(a, b[j]), j - 1), BMulFrom(a, b, j + 1))

BMul(a, b) == BMulFrom(a, b, 1)

\* a * 2^k
BShl(a, k) == BShiftLimbs(BMulSmall(a, 2^(k % LimbBits)), k \div LimbBits)

RECURSIVE BShrFrom(_, _, _)
BShrFrom(d, r, i) ==
    IF i > Len(d) THEN <<>>
    ELSE <<(d[i] \div 2^r) + (Limb(d, i + 1) % 2^r) * 2^(LimbBits - r)>>
             \o BShrFrom(d, r, i + 1)

\* a \div 2^k
BShr(a, k) ==
    LET q == k \div LimbBits
    IN  IF q >= Len(a) THEN <<>>
        ELSE BNorm(BShrFrom(SubSeq(a, q + 1, Len(a)), k % LimbBits, 1))

\* a % 2^k
BLow(a, k) ==
    LET q == k \div LimbBits
    IN  IF q >= Len(a) THEN a
        ELSE BNorm(SubSeq(a, 1, q) \o <<a[q + 1] % 2^(k % LimbBits)>>)

RECURSIVE IntBitLen(_)
IntBitLen(n) == IF n = 0 THEN 0 ELSE 1 + IntBitLen(n \div 2)

BBitLen(a) ==
    IF Len(a) = 0 THEN 0 ELSE LimbBits * (Len(a) - 1) + IntBitLen(a[Len(a)])

BIsOdd(a) == Len(a) > 0 /\ a[1] % 2 = 1

\* bit i (from 0) of a
BBit(a, i) == (Limb(a, i \div LimbBits + 1) \div 2^(i % LimbBits)) % 2

\* the number of trailing zero bits of a > 0, counted from bit i
RECURSIVE BTrailZ(_, _)
BTrailZ(a, i) ==
    IF i % LimbBits = 0 /\ a[i \div LimbBits + 1] = 0 THEN BTrailZ(a, i + LimbBits)
    ELSE IF BBit(a, i) = 1 THEN i
    ELSE BTrailZ(a, i + 1)

\* one step of binary long division: bring down bit i of a
BDivStep(a, b, i, qr) ==
    LET r2 == BAdd(BMulSmall(qr[2], 2), IF BBit(a, i) = 1 THEN <<1>> ELSE <<>>)
        ge == BCmp(r2, b) >= 0
    IN  <<BAdd(BMulSmall(qr[1], 2), IF ge THEN <<1>> ELSE <<>>),
          IF ge THEN BSub(r2, b) ELSE r2>>

\* the steps for bits hi down to lo, split in halves to keep the nesting low
RECURSIVE BDivRange(_, _, _, _, _)
BDivRange(a, b, hi, lo, qr) ==
    IF hi = lo THEN BDivStep(a, b, hi, qr)
    ELSE LET mid == (hi + lo + 1) \div 2
             upper == BDivRange(a, b, hi, mid, qr)
         IN  IF Len(upper) = 2 THEN BDivRange(a, b, mid - 1, lo, upper) ELSE upper

\* <<limbs of a \div c, a % c>> for a limb c > 0: schoolbook, from limb i down
RECURSIVE BDivSmallFrom(_, _, _, _)
BDivSmallFrom(a, c, i, r) ==
    IF i = 0 THEN <<<<>>, r>>
    ELSE LET t == r * Radix + a[i]
             rest == BDivSmallFrom(a, c, i - 1, t % c)
         IN  <<Append(rest[1], t \div c), rest[2]>>

\* <<a \div b, a % b>> for b > 0
BDivMod(a, b) ==
    IF Len(a) = 0 THEN <<<<>>, <<>>>>
    ELSE IF Len(b) = 1
         THEN LET qr == BDivSmallFrom(a, b[1], Len(a), 0)
              IN  <<BNorm(qr[1]), BFromNat(qr[2])>>
    ELSE BDivRange(a, b, BBitLen(a) - 1, 0, <<<<>>, <<>>>>)

(***************************************************************************)
(* double: IEEE-754 binary64.  A finite value is (-1)^s * m * 2^e with m   *)
(* odd (or 0 with e = 0), so equal records are the same stored value.      *)
(***************************************************************************)
MantBits == 53
MinExp == -1074
MaxExp == 1024

FNaN == [k |-> "nan", s |-> 0, m |-> <<>>, e |-> 0]
FInf(s) == [k |-> "inf", s |-> s, m |-> <<>>, e |-> 0]
FZero(s) == [k |-> "fin", s |-> s, m |-> <<>>, e |-> 0]

IsNaN(x) == x.k = "nan"
IsInf(x) == x.k = "inf"
IsZero(x) == x.k = "fin" /\ Len(x.m) = 0

\* the double M * 2^E, exactly representable, in canonical form
Pack(s, M, E) ==
    IF Len(M) = 0 THEN FZero(s)
    ELSE IF BBitLen(M) + E > MaxExp THEN FInf(s)
    ELSE LET tz == BTrailZ(M, 0)
         IN  [k |-> "fin", s |-> s, m |-> BShr(M, tz), e |-> E + tz]

\* round (M + sticky) * 2^E to nearest, ties to even, where sticky stands
\* for a nonzero remainder below the last bit of M
RoundPack(s, M, E, sticky) ==
    LET sh == Max(Max(BBitLen(M) - MantBits, MinExp - E), 0)
    IN  IF sh = 0 THEN Pack(s, M, E)
        ELSE LET q == BShr(M, sh)
                 c == BCmp(BLow(M, sh), BShl(<<1>>, sh - 1))
                 up == c > 0 \/ (c = 0 /\ (sticky \/ BIsOdd(q)))
             IN  Pack(s, IF up THEN BAdd(q, <<1>>) ELSE q, E + sh)

\* conversion int -> double (exact for 32-bit ints)
FromInt(i) == IF i < 0 THEN Pack(1, BFromNat(-i), 0) ELSE Pack(0, BFromNat(i), 0)

\* i * 2^e
Dyadic(i, e) == IF i < 0 THEN Pack(1, BFromNat(-i), e) ELSE Pack(0, BFromNat(i), e)

\* |x| < 2^Top(x) for a finite nonzero x
Top(x) == x.e + BBitLen(x.m)

FNeg(x) == IF IsNaN(x) THEN x ELSE [x EXCEPT !.s = 1 - x.s]

FAdd(x, y) ==
    IF IsNaN(x) \/ IsNaN(y) THEN FNaN
    ELSE IF IsInf(x) THEN (IF IsInf(y) /\ y.s # x.s THEN FNaN ELSE x)
    ELSE IF IsInf(y) THEN y
    ELSE IF IsZero(x) /\ IsZero(y) THEN FZero(IF x.s = y.s THEN x.s ELSE 0)
    ELSE IF IsZero(x) THEN y
    ELSE IF IsZero(y) THEN x
    ELSE IF Top(x) - Top(y) >= MantBits + 2 THEN x
    ELSE IF Top(y) - Top(x) >= MantBits + 2 THEN y
    ELSE LET lo == Min(x.e, y.e)
             A == BShl(x.m, x.e - lo)
             B == BShl(y.m, y.e - lo)
             c == BCmp(A, B)
         IN  IF x.s = y.s THEN RoundPack(x.s, BAdd(A, B), lo, FALSE)
             ELSE IF c = 0 THEN FZero(0)
             ELSE IF c > 0 THEN RoundPack(x.s, BSub(A, B), lo, FALSE)
             ELSE RoundPack(y.s, BSub(B, A), lo, FALSE)

FSub(x, y) == FAdd(x, FNeg(y))

SignXor(x, y) == IF x.s = y.s THEN 0 ELSE 1

FMul(x, y) ==
    IF IsNaN(x) \/ IsNaN(y) THEN FNaN
    ELSE IF IsInf(x) \/ IsInf(y)
         THEN (IF IsZero(x) \/ IsZero(y) THEN FNaN ELSE FInf(SignXor(x, y)))
    ELSE IF IsZero(x) \/ IsZero(y) THEN FZero(SignXor(x, y))
    ELSE RoundPack(SignXor(x, y), BMul(x.m, y.m), x.e + y.e, FALSE)

FDiv(x, y) ==
    IF IsNaN(x) \/ IsNaN(y) THEN FNaN
    ELSE IF IsInf(x) THEN (IF IsInf(y) THEN FNaN ELSE FInf(SignXor(x, y)))
    ELSE IF IsInf(y) THEN FZero(SignXor(x, y))
    ELSE IF IsZero(y) THEN (IF IsZero(x) THEN FNaN ELSE FInf(SignXor(x, y)))
    ELSE IF IsZero(x) THEN FZero(SignXor(x, y))
    ELSE LET k == Max(0, MantBits + 2 + BBitLen(y.m) - BBitLen(x.m))
             qr == BDivMod(BShl(x.m, k), y.m)
         IN  RoundPack(SignXor(x, y), qr[1], x.e - y.e - k, Len(qr[2]) > 0)

\* the C++ == on doubles
FEq(x, y) ==
    /\ ~IsNaN(x)
    /\ ~IsNaN(y)
    /\ \/ x = y
       \/ IsZero(x) /\ IsZero(y)

(***************************************************************************)
(* Direction.h, which BoundaryVector.h includes, is not among the sources; *)
(* the specification gives X = 0, Y = 1 and two components per point.      *)
(***************************************************************************)
X == 0
Y == 1
XY == 2

(***************************************************************************)
(* Bounds of the model.                                                    *)
(***************************************************************************)
\* named BoundaryVector objects a program holds (object 0 is the temporary
\* a by-value operator returns)
NumVecs == 2
\* n of BoundaryVector(n) ranges over 1..MaxPoints
MaxPoints == 2
\* calls made by the program
MaxSteps == 3

TMP == 0
Slots == 1..NumVecs
Objs == {TMP} \cup Slots
\* memory blocks: one per object, and one more while an operator builds its
\* result from a temporary operand
Addr == 1..(NumVecs + 2)

\* what a freshly allocated block of doubles may hold
Garbage == {FZero(0), FromInt(3)}
\* the doubles a caller passes: element values and scalars
Vals == {FromInt(1)}
Scalars == {FZero(0), FromInt(3)}
DirArgs == {X, Y, Y + 1}
IdxArgs == 0..MaxPoints
FlatArgs == 0..(MaxPoints * XY)

VARIABLES
    heap,     \* memory block -> its doubles, indexed from 0 (<<>>: not allocated)
    vecs,     \* object -> [numPoints, data]: _numPoints and the block _data refers to
    failed,   \* an assertion failed: the program was aborted
    last,     \* the last call: its arguments, the objects before it, its result
    born,     \* object -> the number of points it was constructed with
    copyOf,   \* object -> the object it was copy-constructed from (-1: none)
    steps     \* calls made so far

vars == <<heap, vecs, failed, last, born, copyOf, steps>>

Free == <<>>
NoVec == [numPoints |-> 0, data |-> 0]
Live(vs, o) == vs[o].data # 0

\* the lowest free block
Alloc(h) == CHOOSE a \in Addr : h[a] = Free /\ \A b \in Addr : b < a => h[b] # Free

(***************************************************************************)
(* Blitz++ Array<double,1>: a reference to a block of doubles.             *)
(***************************************************************************)
\* Array<double,1>(len): a new block, its contents whatever the memory held
ArrayNew(h, len, mem) == [h EXCEPT ![Alloc(h)] = [k \in 0..(len - 1) |-> mem[k]]]

\* dst = src: elementwise, over the extent of dst
ArrayAssign(h, dst, src) == [h EXCEPT ![dst] = [k \in DOMAIN h[dst] |-> h[src][k]]]

\* dst = a
ArrayFill(h, dst, a) == [h EXCEPT ![dst] = [k \in DOMAIN h[dst] |-> a]]

\* dst += src
ArrayAdd(h, dst, src) ==
    [h EXCEPT ![dst] = [k \in DOMAIN h[dst] |-> FAdd(h[dst][k], h[src][k])]]

\* mutant of ArraySub: the operands swapped
ArraySubReversed(h, dst, src) ==
    [h EXCEPT ![dst] = [k \in DOMAIN h[dst] |-> FSub(h[src][k], h[dst][k])]]

\* dst -= src
ArraySub(h, dst, src) ==
    [h EXCEPT ![dst] = [k \in DOMAIN h[dst] |-> FSub(h[dst][k], h[src][k])]]

\* dst *= a
ArrayScale(h, dst, a) == [h EXCEPT ![dst] = [k \in DOMAIN h[dst] |-> FMul(h[dst][k], a)]]

\* dst /= a
ArrayDivide(h, dst, a) == [h EXCEPT ![dst] = [k \in DOMAIN h[dst] |-> FDiv(h[dst][k], a)]]

\* sum(expr): the reduction starts from 0 and adds the elements in index order
RECURSIVE ArraySum(_, _)
ArraySum(e, len) ==
    IF len = 0 THEN FZero(0) ELSE FAdd(ArraySum(e, len - 1), e[len - 1])

(***************************************************************************)
(* class BoundaryVector.  Each member function is an operator on the heap  *)
(* h and the object(s); a mutating one returns [ok, heap], ok being its    *)
(* assertions.                                                             *)
(***************************************************************************)
\* mutant of Construct: one component per point allocated
ConstructHalf(h, n, mem) ==
    [obj |-> [numPoints |-> n, data |-> Alloc(h)],
     heap |-> ArrayNew(h, n, mem)]

\* BoundaryVector(int n): _numPoints(n), _data(_numPoints * XY)
Construct(h, n, mem) ==
    [obj |-> [numPoints |-> n, data |-> Alloc(h)],
     heap |-> ArrayNew(h, n * XY, mem)]

\* mutant of CopyConstruct: _data(f._data), Blitz's copy constructor, which
\* refers to the block of f
CopyConstructShared(h, f) ==
    [obj |-> [numPoints |-> f.numPoints, data |-> f.data], heap |-> h]

\* BoundaryVector(const BoundaryVector& f): a new block, then _data = f._data.
\* The new block has the extent of f's, so the assignment overwrites all of
\* it and what the memory held is never seen.
CopyConstruct(h, f) ==
    LET a == Alloc(h)
        h1 == ArrayNew(h, f.numPoints * XY, [k \in 0..(f.numPoints * XY - 1) |-> FZero(0)])
    IN  [obj |-> [numPoints |-> f.numPoints, data |-> a],
         heap |-> ArrayAssign(h1, a, f.data)]

getNumPoints(self) == self.numPoints

getSize(self) == XY * self.numPoints

\* mutant of At: the direction not scaled by the number of points
AtAliased(self, dir, i) ==
    [ok |-> dir >= X /\ dir <= Y /\ i >= 0 /\ i < self.numPoints,
     ind |-> dir + i]

\* operator()(int dir, int i): the element referred to
At(self, dir, i) ==
    [ok |-> dir >= X /\ dir <= Y /\ i >= 0 /\ i < self.numPoints,
     ind |-> dir * self.numPoints + i]

\* operator()(index ind)
AtIndex(self, ind) ==
    [ok |-> ind >= 0 /\ ind < self.numPoints * XY, ind |-> ind]

\* begin()
Begin(self) == 0

\* end()
End(self) == self.numPoints * XY

\* mutant of BeginDir: the direction not scaled by the number of points
BeginDirUnscaled(self, dir) == [ok |-> dir >= X /\ dir <= Y, ind |-> dir]

\* begin(int dir)
BeginDir(self, dir) == [ok |-> dir >= X /\ dir <= Y, ind |-> dir * self.numPoints]

\* end(int dir)
EndDir(self, dir) == [ok |-> dir >= X /\ dir <= Y, ind |-> (dir + 1) * self.numPoints]

\* mutant of getIndex: the components of a point stored side by side
getIndexInterleaved(self, dir, i) ==
    [ok |-> dir >= X /\ dir <= Y /\ i >= 0 /\ i < self.numPoints,
     ind |-> i * XY + dir]

getIndex(self, dir, i) ==
    [ok |-> dir >= X /\ dir <= Y /\ i >= 0 /\ i < self.numPoints,
     ind |-> dir * self.numPoints + i]

\* mutant of AssignVec: no assertion, and the block takes the extent of f's
AssignVecResizing(h, self, f) ==
    [ok |-> TRUE, heap |-> [h EXCEPT ![self.data] = h[f.data]]]

\* operator=(const BoundaryVector& f)
AssignVec(h, self, f) ==
    LET ok == f.numPoints = self.numPoints
    IN  [ok |-> ok, heap |-> IF ok THEN ArrayAssign(h, self.data, f.data) ELSE h]

\* operator=(double a)
AssignScalar(h, self, a) == [ok |-> TRUE, heap |-> ArrayFill(h, self.data, a)]

\* mutant of PlusEq: no assertion, the elements both blocks have are added
PlusEqTruncating(h, self, f) ==
    [ok |-> TRUE,
     heap |-> [h EXCEPT ![self.data] =
                  [k \in DOMAIN h[self.data] |->
                      IF k \in DOMAIN h[f.data]
                      THEN FAdd(h[self.data][k], h[f.data][k])
                      ELSE h[self.data][k]]]]

\* operator+=(const BoundaryVector& f)
PlusEq(h, self, f) ==
    LET ok == f.numPoints = self.numPoints
    IN  [ok |-> ok, heap |-> IF ok THEN ArrayAdd(h, self.data, f.data) ELSE h]

\* operator-=(const BoundaryVector& f)
MinusEq(h, self, f) ==
    LET ok == f.numPoints = self.numPoints
    IN  [ok |-> ok, heap |-> IF ok THEN ArraySub(h, self.data, f.data) ELSE h]

\* operator*=(double a)
TimesEq(h, self, a) == [ok |-> TRUE, heap |-> ArrayScale(h, self.data, a)]

\* operator/=(double a)
DivEq(h, self, a) == [ok |-> TRUE, heap |-> ArrayDivide(h, self.data, a)]

\* mutant of OpPlus: *this += g; return *this
OpPlusInPlace(h, self, g) ==
    LET r == PlusEq(h, self, g)
        c == CopyConstruct(r.heap, self)
    IN  [ok |-> r.ok, heap |-> c.heap, obj |-> c.obj]

\* operator+(const BoundaryVector& g): h = *this; h += g; return h
OpPlus(h, self, g) ==
    LET c == CopyConstruct(h, self)
        r == PlusEq(c.heap, c.obj, g)
    IN  [ok |-> r.ok, heap |-> r.heap, obj |-> c.obj]

\* operator-(const BoundaryVector& g)
OpMinus(h, self, g) ==
    LET c == CopyConstruct(h, self)
        r == MinusEq(c.heap, c.obj, g)
    IN  [ok |-> r.ok, heap |-> r.heap, obj |-> c.obj]

\* operator*(double a), and the free operator*(double a, const BoundaryVector& f)
OpTimes(h, self, a) ==
    LET c == CopyConstruct(h, self)
        r == TimesEq(c.heap, c.obj, a)
    IN  [ok |-> r.ok, heap |-> r.heap, obj |-> c.obj]

\* operator/(double a)
OpDiv(h, self, a) ==
    LET c == CopyConstruct(h, self)
        r == DivEq(c.heap, c.obj, a)
    IN  [ok |-> r.ok, heap |-> r.heap, obj |-> c.obj]

\* the free operator-(const BoundaryVector& f): g = f; g *= -1; return g
OpNegate(h, f) ==
    LET c == CopyConstruct(h, f)
        r == TimesEq(c.heap, c.obj, FromInt(-1))
    IN  [ok |-> r.ok, heap |-> r.heap, obj |-> c.obj]

\* mutant of InnerProduct: the X components only
InnerProductX(h, x, y) ==
    ArraySum([k \in DOMAIN h[x.data] |-> FMul(h[x.data][k], h[y.data][k])],
             x.numPoints)

\* InnerProduct(x, y): sum(x._data * y._data), for blocks of one extent
InnerProduct(h, x, y) ==
    ArraySum([k \in DOMAIN h[x.data] |-> FMul(h[x.data][k], h[y.data][k])],
             Cardinality(DOMAIN h[x.data]))


(***************************************************************************)
(* The program: a sequence of calls on its objects.                        *)
(***************************************************************************)
\* what each object holds, as seen through it
View(vs, h) ==
    [o \in Objs |->
        IF Live(vs, o)
        THEN [numPoints |-> vs[o].numPoints, data |-> h[vs[o].data]]
        ELSE [numPoints |-> 0, data |-> <<>>]]

NoFrom == [op |-> "none", a |-> -1, b |-> -1]

\* a call: op on object a (and object b, scalar sc, direction dir, index i);
\* ok: its assertions held; ret, reti, reti2: what it returned; pre: the
\* objects before it; from: the call that returned the temporary it used
NoCall ==
    [op |-> "none", a |-> -1, b |-> -1, sc |-> FZero(0), dir |-> 0, i |-> 0,
     ok |-> TRUE, ret |-> FZero(0), reti |-> 0, reti2 |-> 0,
     pre |-> View(vecs, heap), from |-> NoFrom]

Call(op, a, b) ==
    [NoCall EXCEPT !.op = op, !.a = a, !.b = b,
                   !.from = IF a = TMP \/ b = TMP
                            THEN [op |-> last.op, a |-> last.a, b |-> last.b]
                            ELSE NoFrom]

Running == ~failed /\ steps < MaxSteps

\* a failed assertion aborts the program
Abort(c) ==
    /\ failed' = TRUE
    /\ last' = [c EXCEPT !.ok = FALSE]
    /\ steps' = steps + 1
    /\ UNCHANGED <<heap, vecs, born, copyOf>>

\* the call returns; at the end of the full expression the temporary, if
\* there is one, is destroyed and its block released
Finish(vs, h, bn, cp, c) ==
    /\ vecs' = [vs EXCEPT ![TMP] = NoVec]
    /\ heap' = IF Live(vs, TMP) THEN [h EXCEPT ![vs[TMP].data] = Free] ELSE h
    /\ born' = [bn EXCEPT ![TMP] = 0]
    /\ copyOf' = cp
    /\ last' = c
    /\ steps' = steps + 1
    /\ UNCHANGED failed

\* a by-value operator returns r.obj: it is the temporary of the expression,
\* and a temporary that was its operand is destroyed
Return(r, n, c) ==
    /\ vecs' = [vecs EXCEPT ![TMP] = r.obj]
    /\ heap' = IF Live(vecs, TMP) THEN [r.heap EXCEPT ![vecs[TMP].data] = Free]
               ELSE r.heap
    /\ born' = [born EXCEPT ![TMP] = n]
    /\ last' = c
    /\ steps' = steps + 1
    /\ UNCHANGED <<failed, copyOf>>

\* BoundaryVector d(n);
DoConstruct(d, n, mem) ==
    /\ Running
    /\ ~Live(vecs, d)
    /\ LET r == Construct(heap, n, mem)
       IN  Finish([vecs EXCEPT ![d] = r.obj], r.heap, [born EXCEPT ![d] = n],
                  [copyOf EXCEPT ![d] = -1], [Call("construct", d, -1) EXCEPT !.i = n])

\* BoundaryVector d = f;  (f a named object, or the temporary)
DoCopyConstruct(d, f) ==
    /\ Running
    /\ ~Live(vecs, d)
    /\ Live(vecs, f)
    /\ LET r == CopyConstruct(heap, vecs[f])
       IN  Finish([vecs EXCEPT ![d] = r.obj], r.heap,
                  [born EXCEPT ![d] = vecs[f].numPoints],
                  [copyOf EXCEPT ![d] = IF f = TMP THEN -1 ELSE f],
                  Call("copy", d, f))

\* a = f;
DoAssignVec(a, f) ==
    /\ Running
    /\ Live(vecs, a)
    /\ Live(vecs, f)
    /\ LET r == AssignVec(heap, vecs[a], vecs[f])
           c == Call("assign", a, f)
       IN  IF r.ok THEN Finish(vecs, r.heap, born, copyOf, c) ELSE Abort(c)

\* a = x;
DoAssignScalar(a, x) ==
    /\ Running
    /\ Live(vecs, a)
    /\ LET r == AssignScalar(heap, vecs[a], x)
       IN  Finish(vecs, r.heap, born, copyOf, [Call("fill", a, -1) EXCEPT !.sc = x])

\* a += f;
DoPlusEq(a, f) ==
    /\ Running
    /\ Live(vecs, a)
    /\ Live(vecs, f)
    /\ LET r == PlusEq(heap, vecs[a], vecs[f])
           c == Call("+=", a, f)
       IN  IF r.ok THEN Finish(vecs, r.heap, born, copyOf, c) ELSE Abort(c)

\* a -= f;
DoMinusEq(a, f) ==
    /\ Running
    /\ Live(vecs, a)
    /\ Live(vecs, f)
    /\ LET r == MinusEq(heap, vecs[a], vecs[f])
           c == Call("-=", a, f)
       IN  IF r.ok THEN Finish(vecs, r.heap, born, copyOf, c) ELSE Abort(c)

\* a *= x;
DoTimesEq(a, x) ==
    /\ Running
    /\ Live(vecs, a)
    /\ LET r == TimesEq(heap, vecs[a], x)
       IN  Finish(vecs, r.heap, born, copyOf, [Call("*=", a, -1) EXCEPT !.sc = x])

\* a /= x;
DoDivEq(a, x) ==
    /\ Running
    /\ Live(vecs, a)
    /\ LET r == DivEq(heap, vecs[a], x)
       IN  Finish(vecs, r.heap, born, copyOf, [Call("/=", a, -1) EXCEPT !.sc = x])

\* a(dir, i) = v;  through the reference the non-const operator() returns
DoWriteAt(a, dir, i, v) ==
    /\ Running
    /\ Live(vecs, a)
    /\ LET r == At(vecs[a], dir, i)
           c == [Call("write", a, -1) EXCEPT !.dir = dir, !.i = i, !.sc = v]
       IN  IF r.ok
           THEN Finish(vecs, [heap EXCEPT ![vecs[a].data][r.ind] = v], born, copyOf, c)
           ELSE Abort(c)

\* a(ind) = v;
DoWriteIndex(a, ind, v) ==
    /\ Running
    /\ Live(vecs, a)
    /\ LET r == AtIndex(vecs[a], ind)
           c == [Call("writeIndex", a, -1) EXCEPT !.i = ind, !.sc = v]
       IN  IF r.ok
           THEN Finish(vecs, [heap EXCEPT ![vecs[a].data][r.ind] = v], born, copyOf, c)
           ELSE Abort(c)

\* a(dir, i), read
DoReadAt(a, dir, i) ==
    /\ Running
    /\ Live(vecs, a)
    /\ LET r == At(vecs[a], dir, i)
           c == [Call("read", a, -1) EXCEPT !.dir = dir, !.i = i]
       IN  IF r.ok
           THEN Finish(vecs, heap, born, copyOf,
                       [c EXCEPT !.ret = heap[vecs[a].data][r.ind]])
           ELSE Abort(c)

\* a(a.getIndex(dir, i)), read
DoReadIndex(a, dir, i) ==
    /\ Running
    /\ Live(vecs, a)
    /\ LET g == getIndex(vecs[a], dir, i)
           r == AtIndex(vecs[a], g.ind)
           c == [Call("readIndex", a, -1) EXCEPT !.dir = dir, !.i = i, !.reti = g.ind]
       IN  IF g.ok /\ r.ok
           THEN Finish(vecs, heap, born, copyOf,
                       [c EXCEPT !.ret = heap[vecs[a].data][r.ind]])
           ELSE Abort(c)

\* a.getSize(), a.getNumPoints()
DoGetSize(a) ==
    /\ Running
    /\ Live(vecs, a)
    /\ Finish(vecs, heap, born, copyOf,
              [Call("getSize", a, -1) EXCEPT !.reti = getSize(vecs[a]),
                                            !.reti2 = getNumPoints(vecs[a])])

\* a.begin(dir), a.end(dir)
DoBounds(a, dir) ==
    /\ Running
    /\ Live(vecs, a)
    /\ LET lo == BeginDir(vecs[a], dir)
           hi == EndDir(vecs[a], dir)
           c == [Call("bounds", a, -1) EXCEPT !.dir = dir]
       IN  IF lo.ok /\ hi.ok
           THEN Finish(vecs, heap, born, copyOf,
                       [c EXCEPT !.reti = lo.ind, !.reti2 = hi.ind])
           ELSE Abort(c)

\* a + f, a - f
DoOpPlus(a, f) ==
    /\ Running
    /\ Live(vecs, a)
    /\ Live(vecs, f)
    /\ LET r == OpPlus(heap, vecs[a], vecs[f])
           c == Call("+", a, f)
       IN  IF r.ok THEN Return(r, vecs[a].numPoints, c) ELSE Abort(c)

DoOpMinus(a, f) ==
    /\ Running
    /\ Live(vecs, a)
    /\ Live(vecs, f)
    /\ LET r == OpMinus(heap, vecs[a], vecs[f])
           c == Call("-", a, f)
       IN  IF r.ok THEN Return(r, vecs[a].numPoints, c) ELSE Abort(c)

\* a * x (and x * a), a / x, -a
DoOpTimes(a, x) ==
    /\ Running
    /\ Live(vecs, a)
    /\ Return(OpTimes(heap, vecs[a], x), vecs[a].numPoints,
              [Call("*", a, -1) EXCEPT !.sc = x])

DoOpDiv(a, x) ==
    /\ Running
    /\ Live(vecs, a)
    /\ Return(OpDiv(heap, vecs[a], x), vecs[a].numPoints,
              [Call("/", a, -1) EXCEPT !.sc = x])

DoOpNegate(a) ==
    /\ Running
    /\ Live(vecs, a)
    /\ Return(OpNegate(heap, vecs[a]), vecs[a].numPoints, Call("neg", a, -1))

\* InnerProduct(a, f).  It asserts nothing: on vectors of different sizes
\* the Blitz expression reads outside a block, and any double may result.
DoInnerProduct(a, f) ==
    /\ Running
    /\ Live(vecs, a)
    /\ Live(vecs, f)
    /\ \E u \in Garbage :
          Finish(vecs, heap, born, copyOf,
                 [Call("inner", a, f) EXCEPT
                     !.ret = IF vecs[a].numPoints = vecs[f].numPoints
                             THEN InnerProduct(heap, vecs[a], vecs[f])
                             ELSE u])

Init ==
    /\ heap = [a \in Addr |-> Free]
    /\ vecs = [o \in Objs |-> NoVec]
    /\ failed = FALSE
    /\ born = [o \in Objs |-> 0]
    /\ copyOf = [o \in Objs |-> -1]
    /\ steps = 0
    /\ last = NoCall

Next ==
    \/ \E d \in Slots, n \in 1..MaxPoints, mem \in [0..(MaxPoints * XY - 1) -> Garbage] :
          DoConstruct(d, n, mem)
    \/ \E d \in Slots, f \in Objs : DoCopyConstruct(d, f)
    \/ \E a \in Slots, f \in Objs : DoAssignVec(a, f)
    \/ \E a \in Slots, x \in Vals : DoAssignScalar(a, x)
    \/ \E a \in Slots, f \in Objs : DoPlusEq(a, f)
    \/ \E a \in Slots, f \in Objs : DoMinusEq(a, f)
    \/ \E a \in Slots, x \in Scalars : DoTimesEq(a, x)
    \/ \E a \in Slots, x \in Scalars : DoDivEq(a, x)
    \/ \E a \in Slots, dir \in DirArgs, i \in IdxArgs, v \in Vals : DoWriteAt(a, dir, i, v)
    \/ \E a \in Slots, ind \in FlatArgs, v \in Vals : DoWriteIndex(a, ind, v)
    \/ \E a \in Slots, dir \in DirArgs, i \in IdxArgs : DoReadAt(a, dir, i)
    \/ \E a \in Slots, dir \in DirArgs, i \in IdxArgs : DoReadIndex(a, dir, i)
    \/ \E a \in Slots : DoGetSize(a)
    \/ \E a \in Slots, dir \in DirArgs : DoBounds(a, dir)
    \/ \E a \in Objs, f \in Slots : DoOpPlus(a, f)
    \/ \E a \in Objs, f \in Slots : DoOpMinus(a, f)
    \/ \E a \in Objs, x \in Scalars : DoOpTimes(a, x)
    \/ \E a \in Objs, x \in Scalars : DoOpDiv(a, x)
    \/ \E a \in Objs : DoOpNegate(a)
    \/ \E a \in Slots, f \in Slots : DoInnerProduct(a, f)

Spec == Init /\ [][Next]_vars

(***************************************************************************)
(* The arithmetic on operands of any contents: every named object has been *)
(* constructed and written, and the program evaluates expressions on them. *)
(***************************************************************************)
\* the contents of an operand of n points: 1, 2, 3, ...; 2^53 everywhere;
\* 2^53 and 1 in turn
Operands ==
    UNION {{[k \in 0..(n * XY - 1) |-> FromInt(k + 1)],
            [k \in 0..(n * XY - 1) |-> Dyadic(1, 53)],
            [k \in 0..(n * XY - 1) |-> IF k % 2 = 0 THEN Dyadic(1, 53) ELSE FromInt(1)]} :
              n \in 1..MaxPoints}

InitArith ==
    \E c \in [Slots -> Operands] :
        /\ heap = [a \in Addr |-> IF a \in Slots THEN c[a] ELSE Free]
        /\ vecs = [o \in Objs |->
                      IF o = TMP THEN NoVec
                      ELSE [numPoints |-> Cardinality(DOMAIN c[o]) \div XY, data |-> o]]
        /\ failed = FALSE
        /\ born = [o \in Objs |-> IF o = TMP THEN 0 ELSE Cardinality(DOMAIN c[o]) \div XY]
        /\ copyOf = [o \in Objs |-> -1]
        /\ steps = 1
        /\ last = NoCall

NextArith ==
    \/ \E a \in Objs, f \in Slots : DoOpPlus(a, f)
    \/ \E a \in Objs, f \in Slots : DoOpMinus(a, f)
    \/ \E a \in Objs, x \in Scalars : DoOpTimes(a, x)
    \/ \E a \in Objs, x \in Scalars : DoOpDiv(a, x)
    \/ \E a \in Objs : DoOpNegate(a)
    \/ \E a \in Slots, f \in Slots : DoInnerProduct(a, f)

SpecArith == InitArith /\ [][NextArith]_vars

(***************************************************************************)
(* The claims.                                                             *)
(***************************************************************************)
\* the doubles object o holds
Data(o) == heap[vecs[o].data]

Range(lo, hi) == lo..(hi - 1)

Directions == {X, Y}

\* C1 as stated: a vector freshly constructed with BoundaryVector(n) has
\* getSize() == 2*n and every one of its 2*n elements equals 0.
C1_FreshIsZero ==
    last.op = "construct" =>
        /\ getSize(vecs[last.a]) = 2 * last.i
        /\ \A k \in 0..(2 * last.i - 1) : FEq(Data(last.a)[k], FZero(0))

\* C1 amended: a vector freshly constructed with BoundaryVector(n) has
\* getNumPoints() == n, getSize() == 2*n and a buffer of exactly the 2*n
\* elements 0..2n-1 (holding whatever the allocated memory held).
C1_FreshSize ==
    last.op = "construct" =>
        /\ getNumPoints(vecs[last.a]) = last.i
        /\ getSize(vecs[last.a]) = 2 * last.i
        /\ DOMAIN Data(last.a) = 0..(2 * last.i - 1)

\* a fresh vector of two or more points with an element that is not 0
C1_Witness ==
    /\ last.op = "construct"
    /\ last.i >= 2
    /\ \E k \in DOMAIN Data(last.a) : ~FEq(Data(last.a)[k], FZero(0))

Mismatched ==
    /\ last.op \in {"assign", "+=", "-="}
    /\ last.pre[last.a].numPoints # last.pre[last.b].numPoints

\* C2: f = g, f += g and f -= g on vectors of different numPoints end in the
\* assertion failure, and no object is modified: no truncated or partly
\* combined result.
C2_MismatchFails ==
    Mismatched => failed /\ ~last.ok /\ View(vecs, heap) = last.pre

\* a += of a two-point vector to a one-point vector was attempted
C2_Witness ==
    /\ Mismatched
    /\ last.op = "+="
    /\ last.pre[last.a].numPoints = 1
    /\ last.pre[last.b].numPoints = 2

\* C3: in every reachable state each vector's buffer holds exactly the
\* elements 0..2*numPoints-1, and its numPoints is the value it was
\* constructed with.
C3_BufferLength ==
    \A o \in Objs :
        Live(vecs, o) =>
            /\ DOMAIN Data(o) = 0..(2 * vecs[o].numPoints - 1)
            /\ vecs[o].numPoints = born[o]

\* after a completed assignment or compound operation, vectors of different
\* sizes exist
C3_Witness ==
    /\ last.op \in {"assign", "fill", "+=", "-=", "*=", "/="}
    /\ last.ok
    /\ \E o \in Slots : Live(vecs, o) /\ vecs[o].numPoints # vecs[last.a].numPoints

Mutators == {"assign", "fill", "+=", "-=", "*=", "/=", "write", "writeIndex"}

CopyPair(o, p) == copyOf[o] = p \/ copyOf[p] = o

\* C4: right after g is copy-constructed from f, g has f's numPoints and
\* element values; and a later mutation of either of the two (element write,
\* assignment, +=, -=, *=, /=) leaves the other as it was.
C4_CopyIndependent ==
    /\ (last.op = "copy" /\ last.b \in Slots) =>
          /\ View(vecs, heap)[last.a] = last.pre[last.b]
          /\ View(vecs, heap)[last.b] = last.pre[last.b]
    /\ (last.op \in Mutators /\ last.ok) =>
          \A o \in Slots \ {last.a} :
              CopyPair(o, last.a) => View(vecs, heap)[o] = last.pre[o]

\* a copy was mutated: it now differs from what it was
C4_Witness ==
    /\ last.op \in Mutators
    /\ last.ok
    /\ copyOf[last.a] \in Slots
    /\ View(vecs, heap)[last.a] # last.pre[last.a]

\* the elementwise result of a binary operator
BinaryResult(op, x, y, a) ==
    CASE op = "+" -> FAdd(x, y)
      [] op = "-" -> FSub(x, y)
      [] op = "*" -> FMul(x, a)
      [] op = "/" -> FDiv(x, a)

\* the buffer of a copy of f after the compound operator was applied to it
CopyThenCompound(op, f, g, a) ==
    LET c == CopyConstruct(heap, f)
        r == CASE op = "+" -> PlusEq(c.heap, c.obj, g)
               [] op = "-" -> MinusEq(c.heap, c.obj, g)
               [] op = "*" -> TimesEq(c.heap, c.obj, a)
               [] op = "/" -> DivEq(c.heap, c.obj, a)
    IN  r.heap[c.obj.data]

\* C5: f + g, f - g, f * a and f / a leave their operands as they were, and
\* return a vector of f's numPoints that holds what a copy of f holds after
\* += g, -= g, *= a, /= a: elementwise f(k)+g(k), f(k)-g(k), f(k)*a, f(k)/a.
C5_BinaryOpsPure ==
    (last.op \in {"+", "-", "*", "/"} /\ last.ok /\ last.a \in Slots) =>
        LET g == IF last.b \in Slots THEN last.b ELSE last.a
        IN  /\ \A o \in Slots : View(vecs, heap)[o] = last.pre[o]
            /\ vecs[TMP].numPoints = last.pre[last.a].numPoints
            /\ DOMAIN Data(TMP) = DOMAIN last.pre[last.a].data
            /\ \A k \in DOMAIN Data(TMP) :
                  Data(TMP)[k] = BinaryResult(last.op, last.pre[last.a].data[k],
                                              last.pre[g].data[k], last.sc)
            /\ Data(TMP) = CopyThenCompound(last.op, vecs[last.a], vecs[g], last.sc)

\* f + g returned something other than f
C5_Witness ==
    /\ last.op = "+"
    /\ last.ok
    /\ last.a \in Slots
    /\ last.a # last.b
    /\ Data(TMP) # Data(last.a)

\* a double that is a small integer, and that integer
SmallInt(x) ==
    \/ IsZero(x)
    \/ x.k = "fin" /\ Len(x.m) = 1 /\ x.m[1] < 16 /\ x.e >= 0 /\ x.e <= 4

IntOf(x) ==
    IF IsZero(x) THEN 0 ELSE (IF x.s = 1 THEN -1 ELSE 1) * x.m[1] * 2^(x.e)

\* the loop over the public interface InnerProduct is documented to equal:
\* ip = 0; for (ind = x.begin(); ind != x.end(); ++ind) ip += x(ind) * y(ind);
RECURSIVE LoopSum(_, _, _)
LoopSum(x, y, ind) ==
    IF ind = Begin(vecs[x]) THEN FZero(0)
    ELSE FAdd(LoopSum(x, y, ind - 1),
              FMul(Data(x)[AtIndex(vecs[x], ind - 1).ind],
                   Data(y)[AtIndex(vecs[y], ind - 1).ind]))

RECURSIVE IntSum(_, _, _)
IntSum(x, y, ind) ==
    IF ind = 0 THEN 0
    ELSE IntSum(x, y, ind - 1) + IntOf(Data(x)[ind - 1]) * IntOf(Data(y)[ind - 1])

\* C6: for x and y of equal numPoints n, InnerProduct(x, y) is the sum over
\* all flat indices k in [0, 2n) of x(k) * y(k), X and Y halves together,
\* accumulated in doubles in index order; where the elements are small
\* integers it is exactly the integer sum (for x = y the sum of squares).
C6_InnerProductSum ==
    (last.op = "inner" /\ vecs[last.a].numPoints = vecs[last.b].numPoints) =>
        /\ last.ret = LoopSum(last.a, last.b, End(vecs[last.a]))
        /\ (\A k \in DOMAIN Data(last.a) : SmallInt(Data(last.a)[k]) /\ SmallInt(Data(last.b)[k]))
              => last.ret = FromInt(IntSum(last.a, last.b, 2 * vecs[last.a].numPoints))

\* InnerProduct(f, f) for X = [1, 2], Y = [3, 4] returned 30
C6_Witness ==
    /\ last.op = "inner"
    /\ last.a = last.b
    /\ vecs[last.a].numPoints = 2
    /\ \A k \in 0..3 : Data(last.a)[k] = FromInt(k + 1)
    /\ last.ret = FromInt(30)

\* C7: for every vector of n points, [begin(X), end(X)) and [begin(Y), end(Y))
\* hold n flat indices each, are disjoint, and together are [begin(), end()).
C7_DirectionRanges ==
    /\ \A o \in Objs :
          Live(vecs, o) =>
              LET v == vecs[o]
                  RX == Range(BeginDir(v, X).ind, EndDir(v, X).ind)
                  RY == Range(BeginDir(v, Y).ind, EndDir(v, Y).ind)
              IN  /\ BeginDir(v, X).ok /\ EndDir(v, X).ok
                  /\ BeginDir(v, Y).ok /\ EndDir(v, Y).ok
                  /\ Cardinality(RX) = v.numPoints
                  /\ Cardinality(RY) = v.numPoints
                  /\ RX \cap RY = {}
                  /\ RX \cup RY = Range(Begin(v), End(v))
    /\ (last.op = "bounds" /\ last.ok) =>
          /\ Cardinality(Range(last.reti, last.reti2)) = vecs[last.a].numPoints
          /\ Range(last.reti, last.reti2) \subseteq Range(Begin(vecs[last.a]), End(vecs[last.a]))

\* begin(Y) and end(Y) were called on a vector of two or more points
C7_Witness ==
    /\ last.op = "bounds"
    /\ last.ok
    /\ last.dir = Y
    /\ vecs[last.a].numPoints >= 2

\* C8: for every vector, dir in {X, Y} and i in [0, numPoints), f(dir, i) and
\* f(getIndex(dir, i)) are the same value, and getIndex(dir, i) lies in
\* [begin(dir), end(dir)).
C8_AccessAgree ==
    /\ \A o \in Objs :
          Live(vecs, o) =>
              \A dir \in Directions, i \in 0..(vecs[o].numPoints - 1) :
                  LET v == vecs[o]
                      g == getIndex(v, dir, i)
                  IN  /\ g.ok /\ At(v, dir, i).ok /\ AtIndex(v, g.ind).ok
                      /\ Data(o)[At(v, dir, i).ind] = Data(o)[AtIndex(v, g.ind).ind]
                      /\ g.ind \in Range(BeginDir(v, dir).ind, EndDir(v, dir).ind)
    /\ (last.op = "read" /\ last.ok) =>
          last.ret = Data(last.a)[AtIndex(vecs[last.a],
                                          getIndex(vecs[last.a], last.dir, last.i).ind).ind]
    /\ (last.op = "readIndex" /\ last.ok) =>
          last.ret = Data(last.a)[At(vecs[last.a], last.dir, last.i).ind]

\* f(getIndex(Y, 1)) was read from a vector whose elements are not all equal
C8_Witness ==
    /\ last.op = "readIndex"
    /\ last.ok
    /\ last.dir = Y
    /\ last.i = 1
    /\ \E k \in DOMAIN Data(last.a) : Data(last.a)[k] # last.ret

\* C10: a write f(dir, i) = v changes one element of f: afterwards f(dir, i)
\* is v and every other f(dir', i') is what it was; distinct (direction,
\* point) pairs are distinct buffer slots.
C10_WriteOneElement ==
    (last.op = "write" /\ last.ok) =>
        LET v == vecs[last.a]
            old == last.pre[last.a].data
            Pairs == Directions \X (0..(v.numPoints - 1))
        IN  /\ Data(last.a)[At(v, last.dir, last.i).ind] = last.sc
            /\ \A p \in Pairs :
                  p # <<last.dir, last.i>> =>
                      Data(last.a)[At(v, p[1], p[2]).ind] = old[At(v, p[1], p[2]).ind]
            /\ \A p, q \in Pairs : p # q => At(v, p[1], p[2]).ind # At(v, q[1], q[2]).ind
            /\ Cardinality({k \in DOMAIN old : Data(last.a)[k] # old[k]}) <= 1

\* f(X, 1) was overwritten with a new value while f(Y, 0) held another
C10_Witness ==
    /\ last.op = "write"
    /\ last.ok
    /\ last.dir = X
    /\ last.i = 1
    /\ last.pre[last.a].data[1] # last.sc
    /\ last.pre[last.a].data[2] # last.sc


\* the expression (f + g) - g was evaluated: f is last.from.a, g is last.b
PlusThenMinus ==
    /\ last.op = "-"
    /\ last.ok
    /\ last.a = TMP
    /\ last.from.op = "+"
    /\ last.from.a \in Slots
    /\ last.from.b = last.b

\* the double addition x + y is exact: both finite, the sum a double
ExactSum(x, y) ==
    /\ x.k = "fin"
    /\ y.k = "fin"
    /\ \/ IsZero(x)
       \/ IsZero(y)
       \/ /\ Top(x) - Top(y) < MantBits + 2
          /\ Top(y) - Top(x) < MantBits + 2
          /\ LET lo == Min(x.e, y.e)
                 A == BShl(x.m, x.e - lo)
                 B == BShl(y.m, y.e - lo)
                 M == IF x.s = y.s THEN BAdd(A, B)
                      ELSE IF BCmp(A, B) >= 0 THEN BSub(A, B) ELSE BSub(B, A)
             IN  \/ Len(M) = 0
                 \/ /\ BBitLen(M) - BTrailZ(M, 0) <= MantBits
                    /\ BBitLen(M) + lo <= MaxExp

\* C9 as stated: (f + g) - g equals f at every one of the 2n flat indices.
C9_RoundTripEqual ==
    PlusThenMinus =>
        \A k \in DOMAIN Data(TMP) : FEq(Data(TMP)[k], Data(last.from.a)[k])

\* C9 amended: (f + g) - g equals f at every flat index k at which the
\* double addition f(k) + g(k) is exact.
C9_RoundTripExact ==
    PlusThenMinus =>
        /\ DOMAIN Data(TMP) = DOMAIN Data(last.from.a)
        /\ \A k \in DOMAIN Data(TMP) :
              ExactSum(Data(last.from.a)[k], Data(last.b)[k])
                  => FEq(Data(TMP)[k], Data(last.from.a)[k])

\* (f + g) - g was evaluated for f = 1, 2, 3, 4, all sums exact
C9_Witness ==
    /\ PlusThenMinus
    /\ last.from.a # last.b
    /\ \A k \in DOMAIN Data(TMP) :
          /\ Data(last.from.a)[k] = FromInt(k + 1)
          /\ ExactSum(Data(last.from.a)[k], Data(last.b)[k])
    /\ vecs[TMP].numPoints = 2

=============================================================================
